---- MODULE Spec2Model ----
(***************************************************************************)
(* devmarket: cart, checkout and order lifecycle (Django views and models) *)
(* as a state machine over the database tables, the payment provider's     *)
(* sessions and the requests in flight.                                    *)
(***************************************************************************)
EXTENDS Integers, FiniteSets, Sequences, TLC

\* ------------------------------------------------------------------ bounds
MaxOrders == 2
MaxSlots == 2

\* ----------------------------------------------------------------- domains
Users == {"alice", "bob", "carol", "dave"}
Shoppers == {"alice"}
Products == {"p1", "p2"}
Titles == {"t1", "t2"}
Categories == {"c1", "c2", "c3"}
Prices == {5, 10}
OrderIds == 1 .. MaxOrders
SessionNums == 1 .. MaxOrders
Slots == 1 .. MaxSlots

NULL == <<"null", 0>>
SessionId(n) == <<"cs", n>>
Time(n) == <<"t", n>>
SessionIds == {SessionId(n) : n \in SessionNums}

\* Product.STATUS_CHOICES
PRODUCT_STATUS == {"draft", "pending", "active", "inactive", "rejected"}
\* Profile.ROLE_CHOICES
ROLES == {"buyer", "seller", "admin"}
\* Order.STATUS_CHOICES
ORDER_STATUS == {"pending", "completed", "failed", "refunded"}
TERMINAL_STATUS == {"completed", "failed", "refunded"}

VARIABLES
    product,     \* catalog_product rows: [Products -> record]
    cart,        \* cart_cart / cart_cartitem rows: [Users -> [exists, items]]
    order,       \* orders_order rows: [OrderIds -> record]
    orderItems,  \* orders_orderitem rows: set of records
    session,     \* the payment provider's checkout sessions: [SessionNums -> status]
    now,         \* the clock read by timezone.now()
    req,         \* requests in flight: [Slots -> record]
    cleared,     \* history: cart clears run on behalf of each order
    counted,     \* history: purchase_count increments run on behalf of each order
    seen,        \* observer: the notifications handled (see Observed)
    profile,     \* accounts_profile rows: [Users -> role]
    auth_user,   \* auth_user rows and the Profile rows referring to each:
                 \* [Users -> [exists, profiles]]
    category     \* catalog_category rows: [Categories -> record]

vars == <<product, cart, order, orderItems, session, now, req, cleared, counted, seen,
          profile, category, auth_user>>
\* all but the observer
sysvars == <<product, cart, order, orderItems, session, now, req, cleared, counted,
             profile, category, auth_user>>

\* ------------------------------------------------------------ the catalog
NoProduct == [exists |-> FALSE, seller |-> "bob", category |-> "c1",
              status |-> "draft", is_active |-> TRUE,
              is_featured |-> FALSE, price |-> 5, title |-> "t1", purchase_count |-> 0,
              published_at |-> NULL]

\* the slug is set from the title on the first save and never regenerated
SlugOf(p) == <<"slug", p>>

\* a top-level category has no parent
NoParent == "none"
NoCategory == [exists |-> FALSE, parent |-> NoParent, is_active |-> TRUE]

\* category.children.all()
children(c) == {k \in Categories : category[k].exists /\ category[k].parent = c}

\* Category.get_descendants: the children, each followed by its own descendants
RECURSIVE get_descendants(_)
get_descendants(c) == UNION {{k} \cup get_descendants(k) : k \in children(c)}

\* Product.is_published
is_published(p) == product[p].status = "active" /\ product[p].is_active

\* Product.save: published_at is stamped when an active product has none
save(row, t) ==
    IF row.status = "active" /\ row.published_at = NULL
    THEN [row EXCEPT !.published_at = t] ELSE row

\* Product.increment_purchase_count on one row
increment_purchase_count(row) == [row EXCEPT !.purchase_count = @ + 1]

\* ---------------------------------------------------------------- the cart
NoCart == [exists |-> FALSE, items |-> {}]

CartProducts(c) == {i.product : i \in c.items}

\* a line priced at the product's price of the moment
get_total_priceLive(i) == product[i.product].price
\* CartItem.get_total_price: the price captured on the line
get_total_price(i) == i.price

RECURSIVE SumPrices(_)
SumPrices(S) ==
    IF S = {} THEN 0
    ELSE LET i == CHOOSE x \in S : TRUE IN get_total_price(i) + SumPrices(S \ {i})

\* Cart.total_price
total_price(c) == SumPrices(c.items)

\* Cart.is_empty
is_empty(c) == Cardinality(c.items) = 0

\* a create on (cart, product) without the get
add_productAgain(c, p) ==
    [c EXCEPT !.items = @ \cup {[product |-> p, price |-> product[p].price]}]
\* Cart.add_product: get_or_create on (cart, product), price captured from the product
add_product(c, p) ==
    IF \E i \in c.items : i.product = p THEN c
    ELSE [c EXCEPT !.items = @ \cup {[product |-> p, price |-> product[p].price]}]

\* every line deleted, whatever the product
remove_productAll(c, p) == [c EXCEPT !.items = {}]
\* what Cart.remove_product returns: True when the cart had a line for the product
RemoveProductReturns(c, p) == IF \E i \in c.items : i.product = p THEN "True" ELSE "False"
\* Cart.remove_product
remove_product(c, p) == [c EXCEPT !.items = {i \in @ : i.product # p}]

\* Cart.clear
clear(c) == [c EXCEPT !.items = {}]

\* ------------------------------------------------------------- the orders
NoOrder == [exists |-> FALSE, user |-> "alice", origin |-> "cart",
            status |-> "pending", total_amount |-> 0,
            stripe_session_id |-> NULL, stripe_payment_intent_id |-> NULL,
            completed_at |-> NULL]

\* order.items of the rows in an orders_orderitem table
ItemsIn(items, o) == {i \in items : i.order = o}
ItemsOf(o) == ItemsIn(orderItems, o)

FreeOrderIds == {o \in OrderIds : ~order[o].exists}
\* the identifier of the next Order row (a fresh uuid4)
NewOrderId == CHOOSE o \in FreeOrderIds : \A x \in FreeOrderIds : o <= x

\* Order.mark_completed on the instance a request holds
mark_completed(row, t) == [row EXCEPT !.status = "completed", !.completed_at = t]

\* ----------------------------------------------------- the payment provider
FreeSessions == {n \in SessionNums : session[n] = "absent"}
NewSession == CHOOSE n \in FreeSessions : \A x \in FreeSessions : n <= x

\* session.payment_intent of a checkout session
PaymentIntentOf(sid) == <<"pi", sid[2]>>

PaymentIntents == {PaymentIntentOf(s) : s \in SessionIds}

\* the order a query by stripe_session_id finds
OrdersBySession(sid) == {o \in OrderIds : order[o].exists /\ order[o].stripe_session_id = sid}
OrdersByIntent(pi) == {o \in OrderIds : order[o].exists /\ order[o].stripe_payment_intent_id = pi}

\* a request slot with no request in it
IdleReq == [kind |-> "idle", pc |-> "idle", user |-> "alice", sid |-> NULL, o |-> 1,
            row |-> NoOrder, todo |-> {}, read |-> 0, wrote |-> FALSE]

\* -------------------------------------------------------------------- Init
InitProduct(p) == [exists |-> TRUE, seller |-> "bob", category |-> "c1", status |-> "active",
                   is_active |-> TRUE, is_featured |-> FALSE,
                   price |-> IF p = "p1" THEN 10 ELSE 5, title |-> "t1",
                   purchase_count |-> 0, published_at |-> Time(0)]

\* a category, a subcategory of it and a subcategory of that
InitCategory == [c \in Categories |->
                    [exists |-> TRUE, is_active |-> TRUE,
                     parent |-> IF c = "c1" THEN NoParent ELSE IF c = "c2" THEN "c1" ELSE "c2"]]

\* the registered users: a buyer, two sellers and an admin
InitProfile == [u \in Users |-> IF u = "alice" THEN "buyer"
                                ELSE IF u = "dave" THEN "admin" ELSE "seller"]

\* every user was created through User.save and has the profile the signal made
InitUser == [u \in Users |-> [exists |-> TRUE, profiles |-> 1]]

\* an account before it is registered: no auth_user row, no Profile row
NoAccount == [exists |-> FALSE, profiles |-> 0, role |-> "buyer", raised |-> FALSE]

\* no webhook event
NoEvent == [valid |-> FALSE, type |-> "none", id |-> NULL]

\* the observer before any notification: per order the success notifications handled
\* (0, 1, 2 for two or more); for the step just taken, when it handled a notification:
\* the handler (kind), the webhook event (ev), the response (resp), the orders the
\* handler's query found (target), the pending orders whose payment failure was
\* reported (failure), and the orders, carts and purchase counts before the step
Unseen == [success |-> [o \in OrderIds |-> 0], failure |-> {},
           cart |-> [u \in Users |-> NoCart], count |-> [p \in Products |-> 0],
           kind |-> "none", ev |-> NoEvent, resp |-> "none", target |-> {},
           order |-> [o \in OrderIds |-> NoOrder],
           op |-> "none", user |-> "alice", p |-> "p1",
           product |-> [p \in Products |-> NoProduct],
           c |-> "c1", listed |-> {}, before |-> NoAccount]

\* the tables other than the catalog are empty, no request is in flight
InitRest ==
    /\ cart = [u \in Users |-> NoCart]
    /\ order = [o \in OrderIds |-> NoOrder]
    /\ orderItems = {}
    /\ session = [n \in SessionNums |-> "absent"]
    /\ now = 1
    /\ req = [r \in Slots |-> IdleReq]
    /\ cleared = [o \in OrderIds |-> 0]
    /\ counted = [o \in OrderIds |-> [p \in Products |-> 0]]
    /\ seen = Unseen
    /\ profile = InitProfile
    /\ auth_user = InitUser

\* a catalog of published products
Init ==
    /\ product = [p \in Products |-> InitProduct(p)]
    /\ category = InitCategory
    /\ InitRest

\* a step that delivers no notification
Unobserved == seen' = [Unseen EXCEPT !.success = seen.success]

\* ---------------------------------------------------------- cart handlers
\* the product lookup of add_to_cart and buy_now: get_object_or_404(Product, slug, is_active=True)
Purchasable(p) == product[p].exists /\ product[p].is_active

\* the response of cart.views.add_to_cart
AddToCartResponse(u, p) == IF ~Purchasable(p) THEN "404" ELSE "redirect_product"

\* cart.views.add_to_cart; the ownership test of lines 34-37 is skipped, hasattr(user,
\* 'purchased_products') being false for a User whose related names are cart, orders,
\* products and profile
AddToCart(u, p) ==
    /\ IF ~Purchasable(p)
       THEN UNCHANGED cart
       ELSE cart' = [cart EXCEPT ![u] = add_product([@ EXCEPT !.exists = TRUE], p)]
    /\ UNCHANGED <<product, order, orderItems, session, now, req, cleared, counted>>
    /\ UNCHANGED <<profile, category, auth_user>>
    /\ Unobserved

\* cart.views.remove_from_cart
remove_from_cart(u, p) ==
    /\ IF ~product[p].exists \/ ~cart[u].exists
       THEN UNCHANGED cart
       ELSE cart' = [cart EXCEPT ![u] = remove_product(@, p)]
    /\ UNCHANGED <<product, order, orderItems, session, now, req, cleared, counted>>
    /\ UNCHANGED <<profile, category, auth_user>>

\* cart.views.clear_cart
clear_cart(u) ==
    /\ IF ~cart[u].exists
       THEN UNCHANGED cart
       ELSE cart' = [cart EXCEPT ![u] = clear(@)]
    /\ UNCHANGED <<product, order, orderItems, session, now, req, cleared, counted>>
    /\ UNCHANGED <<profile, category, auth_user>>

\* the two cart views with nothing observed
RemoveFromCart(u, p) == remove_from_cart(u, p) /\ Unobserved
ClearCart(u) == clear_cart(u) /\ Unobserved

\* ------------------------------------------------------ checkout handlers
\* the OrderItem rows create_checkout_session writes for the lines of a cart
SnapshotPriceLive(o, c) ==
    {[order |-> o, product |-> i.product, price |-> product[i.product].price,
      product_title |-> product[i.product].title,
      product_slug |-> SlugOf(i.product)] : i \in c.items}
SnapshotItems(o, c) ==
    {[order |-> o, product |-> i.product, price |-> i.price,
      product_title |-> product[i.product].title,
      product_slug |-> SlugOf(i.product)] : i \in c.items}

\* the Order row both checkout entry points create; origin records which one
\* an order created with a payment intent id already on it
NewOrderWithIntent(u, origin, total) ==
    [exists |-> TRUE, user |-> u, origin |-> origin,
     status |-> "pending", total_amount |-> total,
     stripe_session_id |-> NULL, stripe_payment_intent_id |-> PaymentIntentOf(SessionId(1)),
     completed_at |-> NULL]

NewOrder(u, origin, total) ==
    [exists |-> TRUE, user |-> u, origin |-> origin,
     status |-> "pending", total_amount |-> total,
     stripe_session_id |-> NULL, stripe_payment_intent_id |-> NULL,
     completed_at |-> NULL]

\* the status of the JsonResponse of create_checkout_session
CreateCheckoutSessionStatus(u, stripeOk) ==
    IF ~cart[u].exists THEN 500
    ELSE IF is_empty(cart[u]) THEN 400
    ELSE IF stripeOk THEN 200 ELSE 500

\* checkout.views.create_checkout_session; stripeOk is whether
\* stripe.checkout.Session.create returns or raises
CreateCheckoutSession(u, stripeOk) ==
    /\ IF ~cart[u].exists \/ is_empty(cart[u])
       THEN UNCHANGED <<order, orderItems, session>>
       ELSE /\ FreeOrderIds # {}
            /\ LET o == NewOrderId
                   created == NewOrder(u, "cart", total_price(cart[u]))
               IN /\ orderItems' = orderItems \cup SnapshotItems(o, cart[u])
                  /\ IF stripeOk
                     THEN /\ session' = [session EXCEPT ![NewSession] = "unpaid"]
                          /\ order' = [order EXCEPT ![o] =
                                 [created EXCEPT !.stripe_session_id = SessionId(NewSession)]]
                     ELSE /\ order' = [order EXCEPT ![o] = created]
                          /\ UNCHANGED session
    /\ UNCHANGED <<product, cart, now, req, cleared, counted>>
    /\ UNCHANGED <<profile, category, auth_user>>
    /\ Unobserved

\* where buy_now sends the user
BuyNowResponse(u, p, stripeOk) ==
    IF ~Purchasable(p) THEN "404"
    ELSE IF stripeOk THEN "redirect_checkout" ELSE "redirect_product_error"

\* checkout.views.buy_now (POST)
BuyNow(u, p, stripeOk) ==
    /\ IF ~Purchasable(p)
       THEN UNCHANGED <<order, orderItems, session>>
       ELSE /\ FreeOrderIds # {}
            /\ LET o == NewOrderId
                   created == NewOrder(u, "buy_now", product[p].price)
               IN /\ orderItems' = orderItems \cup
                        {[order |-> o, product |-> p, price |-> product[p].price,
                          product_title |-> product[p].title, product_slug |-> SlugOf(p)]}
                  /\ IF stripeOk
                     THEN /\ session' = [session EXCEPT ![NewSession] = "unpaid"]
                          /\ order' = [order EXCEPT ![o] =
                                 [created EXCEPT !.stripe_session_id = SessionId(NewSession)]]
                     ELSE /\ order' = [order EXCEPT ![o] = created]
                          /\ UNCHANGED session
    /\ UNCHANGED <<product, cart, now, req, cleared, counted>>
    /\ UNCHANGED <<profile, category, auth_user>>
    /\ Unobserved

\* the customer pays on the provider's hosted checkout page
StripePay(n) ==
    /\ session[n] = "unpaid"
    /\ session' = [session EXCEPT ![n] = "paid"]
    /\ UNCHANGED <<product, cart, order, orderItems, now, req, cleared, counted>>
    /\ UNCHANGED <<profile, category, auth_user>>
    /\ Unobserved

\* the writes of checkout_success lines 128-130 and stripe_webhook lines 188-190:
\* mark_completed, then the payment intent saved on the same instance
CompletedRow(row, t, pi) == [mark_completed(row, t) EXCEPT !.stripe_payment_intent_id = pi]

ProductsOf(o) == {i.product : i \in ItemsOf(o)}

\* for item in order.items.all(): item.product.increment_purchase_count()
IncrementItems(o) ==
    [p \in Products |-> IF p \in ProductsOf(o)
                        THEN increment_purchase_count(product[p]) ELSE product[p]]

CountItems(o) ==
    [counted EXCEPT ![o] = [p \in Products |-> IF p \in ProductsOf(o) THEN @[p] + 1 ELSE @[p]]]

\* the order lookup without the user filter
OwnOrdersAny(u, sid) == OrdersBySession(sid)

\* the orders checkout_success finds: stripe_session_id=session_id, user=request.user
OwnOrders(u, sid) == {o \in OrdersBySession(sid) : order[o].user = u}

\* whether checkout_success gets as far as reading the payment status: a session_id
\* is given, Session.retrieve returns, and the user has an order for the session
SuccessFinds(u, sid, retrieveOk) ==
    sid # NULL /\ retrieveOk /\ session[sid[2]] # "absent" /\ OwnOrders(u, sid) # {}

\* a paid session whose order is no longer pending answered as an error
CheckoutSuccessResponseOnce(u, sid, retrieveOk) ==
    IF ~SuccessFinds(u, sid, retrieveOk) THEN "redirect_cart"
    ELSE IF session[sid[2]] # "paid" THEN "redirect_cancel"
    ELSE IF order[CHOOSE x \in OwnOrders(u, sid) : TRUE].status = "pending"
    THEN "success_page" ELSE "redirect_cart"
\* where checkout_success sends the user
CheckoutSuccessResponse(u, sid, retrieveOk) ==
    IF ~SuccessFinds(u, sid, retrieveOk) THEN "redirect_cart"
    ELSE IF session[sid[2]] = "paid" THEN "success_page" ELSE "redirect_cancel"

\* checkout.views.checkout_success; sid is the session_id query parameter (NULL when
\* missing), retrieveOk is whether stripe.checkout.Session.retrieve returns or raises
checkout_success(u, sid, retrieveOk) ==
    IF ~SuccessFinds(u, sid, retrieveOk)
    THEN UNCHANGED sysvars
    ELSE LET o == CHOOSE x \in OwnOrders(u, sid) : TRUE IN
         IF session[sid[2]] = "paid" /\ order[o].status = "pending"
         THEN /\ order' = [order EXCEPT ![o] = CompletedRow(@, Time(now), PaymentIntentOf(sid))]
              /\ now' = now + 1
              /\ cart' = [cart EXCEPT ![u] = IF @.exists THEN clear(@) ELSE @]
              /\ cleared' = [cleared EXCEPT ![o] = IF cart[u].exists THEN @ + 1 ELSE @]
              /\ product' = IncrementItems(o)
              /\ counted' = CountItems(o)
              /\ UNCHANGED <<orderItems, session, req, profile, category, auth_user>>
         ELSE UNCHANGED sysvars

\* the events the provider posts to the webhook
COMPLETED == "checkout.session.completed"
PAYMENT_FAILED == "payment_intent.payment_failed"

Events ==
    [valid : BOOLEAN, type : {COMPLETED}, id : SessionIds] \cup
    [valid : BOOLEAN, type : {PAYMENT_FAILED}, id : PaymentIntents]

\* the provider sends checkout.session.completed for a paid session, or for a session
\* this application did not open, and payment_intent.payment_failed for any intent
Deliverable(ev) ==
    IF ev.type = COMPLETED THEN session[ev.id[2]] # "unpaid"
    ELSE TRUE

\* the order a verified event refers to, if the handler's query finds one
EventOrders(ev) ==
    IF ev.type = COMPLETED THEN OrdersBySession(ev.id) ELSE OrdersByIntent(ev.id)

\* an event whose order is not found answered as a server error
StripeWebhookStatusStrict(ev) ==
    IF ~ev.valid THEN 400 ELSE IF EventOrders(ev) = {} THEN 500 ELSE 200
\* the status of the HttpResponse of stripe_webhook
StripeWebhookStatus(ev) == IF ev.valid THEN 200 ELSE 400

\* completion written again for an order that is not pending
WebhookRowRestamp(ev, o) ==
    IF ev.type = COMPLETED
    THEN CompletedRow(order[o], Time(now), PaymentIntentOf(ev.id))
    ELSE [order[o] EXCEPT !.status = "failed"]
\* the row stripe_webhook saves for the order o it found
WebhookRow(ev, o) ==
    IF ev.type = COMPLETED
    THEN IF order[o].status = "pending"
         THEN CompletedRow(order[o], Time(now), PaymentIntentOf(ev.id))
         ELSE order[o]
    ELSE [order[o] EXCEPT !.status = "failed"]

\* the handler without construct_event: the payload is processed unverified
stripe_webhookUnverified(ev) ==
    /\ IF EventOrders(ev) = {}
       THEN UNCHANGED <<order, now>>
       ELSE LET o == CHOOSE x \in EventOrders(ev) : TRUE IN
            /\ order' = [order EXCEPT ![o] = WebhookRow(ev, o)]
            /\ now' = IF ev.type = COMPLETED /\ order[o].status = "pending"
                      THEN now + 1 ELSE now
    /\ UNCHANGED <<product, cart, orderItems, session, req, cleared, counted, profile, category, auth_user>>
\* checkout.views.stripe_webhook; what the provider sends is signed, what anyone else
\* posts is not
stripe_webhook(ev) ==
    /\ ev.valid => Deliverable(ev)
    /\ IF ~ev.valid \/ EventOrders(ev) = {}
       THEN UNCHANGED <<order, now>>
       ELSE LET o == CHOOSE x \in EventOrders(ev) : TRUE IN
            /\ order' = [order EXCEPT ![o] = WebhookRow(ev, o)]
            /\ now' = IF ev.type = COMPLETED /\ order[o].status = "pending"
                      THEN now + 1 ELSE now
    /\ UNCHANGED <<product, cart, orderItems, session, req, cleared, counted, profile, category, auth_user>>

\* the two notification handlers with nothing observed
CheckoutSuccess(u, sid, retrieveOk) == checkout_success(u, sid, retrieveOk) /\ Unobserved
StripeWebhook(ev) == stripe_webhook(ev) /\ Unobserved

\* ------------------------------------------------------- catalog handlers
\* Profile.is_seller, Profile.is_admin
is_seller(u) == profile[u] = "seller"
is_admin(u) == profile[u] = "admin"

\* every logged-in user let into the dashboard
DashboardAccessAny(u) == TRUE
\* the check at the head of the seller views: profile.is_seller or profile.is_admin
DashboardAccess(u) == is_seller(u) \/ is_admin(u)

\* the product the edit and toggle views find for the user: any product for an admin,
\* the seller's own products otherwise
Editable(u, p) == product[p].exists /\ (is_admin(u) \/ product[p].seller = u)

\* the seller dashboard's pages that only read
DASHBOARD_PAGES == {"dashboard_home", "product_list", "analytics_view"}

\* the response of dashboard_home, product_list and analytics_view
DashboardPageResponse(u, view) ==
    IF ~DashboardAccess(u) THEN "redirect_home_message" ELSE "page"

\* dashboard_home, product_list, analytics_view: nothing is written
dashboard_page(u, view) == UNCHANGED sysvars

\* the response of ProductCreateView to a valid form
ProductCreateResponse(u) ==
    IF ~DashboardAccess(u) THEN "redirect_home_message" ELSE "redirect_product_list"

\* dashboard.views.ProductCreateView: a new row with the model's defaults, the
\* seller set to the user
product_create(u, p, title, price, c) ==
    /\ ~product[p].exists
    /\ category[c].exists
    /\ IF ~DashboardAccess(u)
       THEN UNCHANGED product
       ELSE product' = [product EXCEPT ![p] =
               [exists |-> TRUE, seller |-> u, category |-> c,
                status |-> "draft", is_active |-> TRUE,
                is_featured |-> FALSE, price |-> price, title |-> title,
                purchase_count |-> 0, published_at |-> NULL]]
    /\ UNCHANGED <<cart, order, orderItems, session, now, req, cleared, counted, profile, category, auth_user>>

\* the response of ProductUpdateView to a valid form
ProductUpdateResponse(u, p) ==
    IF ~DashboardAccess(u) THEN "redirect_home_message"
    ELSE IF ~Editable(u, p) THEN "404" ELSE "redirect_product_list"

\* dashboard.views.ProductUpdateView: the form's fields are saved on the row
product_update(u, p, title, price, c) ==
    /\ category[c].exists
    /\ IF DashboardAccess(u) /\ Editable(u, p)
       THEN product' = [product EXCEPT ![p] =
               save([@ EXCEPT !.title = title, !.price = price, !.category = c], Time(now))]
       ELSE UNCHANGED product
    /\ UNCHANGED <<cart, order, orderItems, session, now, req, cleared, counted, profile, category, auth_user>>

\* the response of product_toggle_status (POST)
ProductToggleStatusResponse(u, p) ==
    IF ~DashboardAccess(u) THEN "json_permission_denied"
    ELSE IF ~Editable(u, p) THEN "404" ELSE "json_success"

\* dashboard.views.product_toggle_status (POST)
product_toggle_status(u, p) ==
    /\ IF DashboardAccess(u) /\ Editable(u, p)
       THEN product' = [product EXCEPT ![p] = save([@ EXCEPT !.is_active = ~@], Time(now))]
       ELSE UNCHANGED product
    /\ UNCHANGED <<cart, order, orderItems, session, now, req, cleared, counted, profile, category, auth_user>>

\* the response of product_toggle_featured (POST)
ProductToggleFeaturedResponse(u, p) ==
    IF ~is_admin(u) THEN "json_admin_required"
    ELSE IF ~product[p].exists THEN "404" ELSE "json_success"

\* dashboard.views.product_toggle_featured (POST)
product_toggle_featured(u, p) ==
    /\ IF is_admin(u) /\ product[p].exists
       THEN product' = [product EXCEPT ![p] = save([@ EXCEPT !.is_featured = ~@], Time(now))]
       ELSE UNCHANGED product
    /\ UNCHANGED <<cart, order, orderItems, session, now, req, cleared, counted, profile, category, auth_user>>

\* the seller views with nothing observed
ProductCreate(u, p, title, price, c) == product_create(u, p, title, price, c) /\ Unobserved
ProductUpdate(u, p, title, price, c) == product_update(u, p, title, price, c) /\ Unobserved
ProductToggleStatus(u, p) == product_toggle_status(u, p) /\ Unobserved

\* catalog.admin.ProductAdmin.approve_products on one selected product
ApproveProduct(p) ==
    /\ product[p].exists
    /\ product' = [product EXCEPT ![p].status = IF @ = "pending" THEN "active" ELSE @]
    /\ UNCHANGED <<cart, order, orderItems, session, now, req, cleared, counted>>
    /\ UNCHANGED <<profile, category, auth_user>>
    /\ Unobserved

\* catalog.admin.ProductAdmin list_editable: the admin sets a product's status
\* catalog.admin.ProductAdmin.make_active on a selection holding p: queryset.update
AdminMakeActive(p) ==
    /\ product[p].exists
    /\ product' = [product EXCEPT ![p].status = "active", ![p].is_active = TRUE]
    /\ UNCHANGED <<cart, order, orderItems, session, now, req, cleared, counted>>
    /\ UNCHANGED <<profile, category, auth_user>>
    /\ Unobserved

AdminSetStatus(p, st) ==
    /\ product[p].exists
    /\ product' = [product EXCEPT ![p] = save([@ EXCEPT !.status = st], Time(now))]
    /\ UNCHANGED <<cart, order, orderItems, session, now, req, cleared, counted>>
    /\ UNCHANGED <<profile, category, auth_user>>
    /\ Unobserved

\* the admin deletes a product: the rows whose product foreign key is
\* on_delete=CASCADE (CartItem.product, OrderItem.product) go with it
AdminDeleteProduct(p) ==
    /\ product[p].exists
    /\ product' = [product EXCEPT ![p] = NoProduct]
    /\ cart' = [u \in Users |-> remove_product(cart[u], p)]
    /\ orderItems' = {i \in orderItems : i.product # p}
    /\ UNCHANGED <<order, session, now, req, cleared, counted>>
    /\ UNCHANGED <<profile, category, auth_user>>
    /\ Unobserved

\* ------------------------------------- the completion handlers, step by step
\* Each database statement of checkout_success and of the checkout.session.completed
\* branch of stripe_webhook is one step; req[r].row is the Order instance the request
\* holds in memory, which Model.save() writes back whole.

\* checkout_success lines 121-126: the session is retrieved, the order is read, and
\* the request goes on only for a paid session and an order read as pending
SuccessBegin(r, u, sid) ==
    /\ req[r].kind = "idle"
    /\ SuccessFinds(u, sid, TRUE)
    /\ session[sid[2]] = "paid"
    /\ LET o == CHOOSE x \in OwnOrders(u, sid) : TRUE IN
       /\ order[o].status = "pending"
       /\ req' = [req EXCEPT ![r] = [IdleReq EXCEPT !.kind = "success", !.pc = "mark",
                     !.user = u, !.sid = sid, !.o = o, !.row = order[o]]]
    /\ UNCHANGED <<product, cart, order, orderItems, session, now, cleared, counted>>
    /\ UNCHANGED <<profile, category, auth_user>>
    /\ Unobserved

\* stripe_webhook lines 182-187: the order of the event's session is read, and the
\* request goes on only for an order read as pending
WebhookBegin(r, ev) ==
    /\ req[r].kind = "idle"
    /\ ev.valid /\ ev.type = COMPLETED /\ Deliverable(ev)
    /\ EventOrders(ev) # {}
    /\ LET o == CHOOSE x \in EventOrders(ev) : TRUE IN
       /\ order[o].status = "pending"
       /\ req' = [req EXCEPT ![r] = [IdleReq EXCEPT !.kind = "webhook", !.pc = "mark",
                     !.user = order[o].user, !.sid = ev.id, !.o = o, !.row = order[o]]]
    /\ UNCHANGED <<product, cart, order, orderItems, session, now, cleared, counted>>
    /\ UNCHANGED <<profile, category, auth_user>>
    /\ Unobserved

\* order.mark_completed(): status and completed_at are set on the instance, which is saved
ReqMark(r) ==
    /\ req[r].pc = "mark"
    /\ LET row == mark_completed(req[r].row, Time(now)) IN
       /\ order' = [order EXCEPT ![req[r].o] = row]
       /\ req' = [req EXCEPT ![r].row = row, ![r].pc = "intent", ![r].wrote = TRUE]
    /\ now' = now + 1
    /\ UNCHANGED <<product, cart, orderItems, session, cleared, counted>>
    /\ UNCHANGED <<profile, category, auth_user>>
    /\ Unobserved

\* order.stripe_payment_intent_id = ...; order.save(); the webhook request ends here
ReqIntent(r) ==
    /\ req[r].pc = "intent"
    /\ LET row == [req[r].row EXCEPT !.stripe_payment_intent_id = PaymentIntentOf(req[r].sid)] IN
       /\ order' = [order EXCEPT ![req[r].o] = row]
       /\ req' = [req EXCEPT ![r] = IF req[r].kind = "webhook" THEN IdleReq
                                    ELSE [@ EXCEPT !.row = row, !.pc = "clear"]]
    /\ UNCHANGED <<product, cart, orderItems, session, now, cleared, counted>>
    /\ UNCHANGED <<profile, category, auth_user>>
    /\ Unobserved

\* checkout_success lines 133-138: the cart is cleared and the order's items are queried
SuccessClear(r) ==
    /\ req[r].pc = "clear"
    /\ cart' = [cart EXCEPT ![req[r].user] = IF @.exists THEN clear(@) ELSE @]
    /\ cleared' = [cleared EXCEPT ![req[r].o] = IF cart[req[r].user].exists THEN @ + 1 ELSE @]
    /\ req' = [req EXCEPT ![r] = IF ProductsOf(req[r].o) = {} THEN IdleReq
                                 ELSE [@ EXCEPT !.todo = ProductsOf(req[r].o), !.pc = "load"]]
    /\ UNCHANGED <<product, order, orderItems, session, now, counted>>
    /\ UNCHANGED <<profile, category, auth_user>>
    /\ Unobserved

\* the next item of the loop
NextItem(r) == CHOOSE p \in req[r].todo : TRUE

\* item.product: the product row is loaded for the next item
SuccessLoad(r) ==
    /\ req[r].pc = "load"
    /\ req' = [req EXCEPT ![r].read = product[NextItem(r)].purchase_count, ![r].pc = "save"]
    /\ UNCHANGED <<product, cart, order, orderItems, session, now, cleared, counted>>
    /\ UNCHANGED <<profile, category, auth_user>>
    /\ Unobserved

\* increment_purchase_count: the loaded count plus one is saved (update_fields)
SuccessSave(r) ==
    /\ req[r].pc = "save"
    /\ LET p == NextItem(r)
           loaded == [product[p] EXCEPT !.purchase_count = req[r].read] IN
       /\ product' = [product EXCEPT ![p].purchase_count =
                          increment_purchase_count(loaded).purchase_count]
       /\ counted' = [counted EXCEPT ![req[r].o][p] = @ + 1]
       /\ req' = [req EXCEPT ![r] = IF req[r].todo = {p} THEN IdleReq
                                    ELSE [@ EXCEPT !.todo = @ \ {p}, !.pc = "load"]]
    /\ UNCHANGED <<cart, order, orderItems, session, now, cleared>>
    /\ UNCHANGED <<profile, category, auth_user>>
    /\ Unobserved

\* ------------------------------------------------------------------- Next
\* the payment flow, one request at a time
Next ==
    \/ \E u \in Shoppers, p \in Products : AddToCart(u, p)
    \/ \E u \in Shoppers, ok \in BOOLEAN : CreateCheckoutSession(u, ok)
    \/ \E u \in Shoppers, p \in Products, ok \in BOOLEAN : BuyNow(u, p, ok)
    \/ \E n \in SessionNums : StripePay(n)
    \/ \E u \in Shoppers, sid \in SessionIds \cup {NULL}, ok \in BOOLEAN :
          CheckoutSuccess(u, sid, ok)
    \/ \E ev \in Events : StripeWebhook(ev)

Spec == Init /\ [][Next]_vars

\* ------------------------------------------------------------ the observer
\* the purchase counters of the catalog
PurchaseCounts == [p \in Products |-> product[p].purchase_count]

\* one more success notification for order o, up to "two or more"
Report(o) == [seen.success EXCEPT ![o] = IF @ < 2 THEN @ + 1 ELSE @]

\* the pending orders whose checkout session has the payment intent pi
PendingOf(pi) ==
    {o \in OrderIds : /\ order[o].exists /\ order[o].status = "pending"
                      /\ order[o].stripe_session_id # NULL
                      /\ PaymentIntentOf(order[o].stripe_session_id) = pi}

\* checkout_success for a paid session and an order of the user is a success notification
ObserveSuccess(u, sid) ==
    seen' = [Unseen EXCEPT !.success =
                IF SuccessFinds(u, sid, TRUE) /\ session[sid[2]] = "paid"
                THEN Report(CHOOSE x \in OwnOrders(u, sid) : TRUE) ELSE seen.success]

\* a verified checkout.session.completed event is a success notification for the order
\* of the session; a verified payment_intent.payment_failed event a failure notification
\* for the pending orders of the intent
ObserveWebhook(ev) ==
    IF ev.valid /\ ev.type = COMPLETED /\ EventOrders(ev) # {}
    THEN seen' = [Unseen EXCEPT !.success = Report(CHOOSE x \in EventOrders(ev) : TRUE)]
    ELSE IF ev.valid /\ ev.type = PAYMENT_FAILED /\ PendingOf(ev.id) # {}
    THEN seen' = [Unseen EXCEPT !.success = seen.success, !.failure = PendingOf(ev.id),
                                !.cart = cart, !.count = PurchaseCounts]
    ELSE Unobserved

ObservedCheckoutSuccess(u, sid) == checkout_success(u, sid, TRUE) /\ ObserveSuccess(u, sid)
ObservedStripeWebhook(ev) == stripe_webhook(ev) /\ ObserveWebhook(ev)

\* the payment flow of the orders made from the cart, with the notifications observed
NextObserved ==
    \/ \E u \in Shoppers, p \in Products : AddToCart(u, p)
    \/ \E u \in Shoppers : CreateCheckoutSession(u, TRUE)
    \/ \E n \in SessionNums : StripePay(n)
    \/ \E u \in Shoppers, sid \in SessionIds : ObservedCheckoutSuccess(u, sid)
    \/ \E ev \in Events : ObservedStripeWebhook(ev)

SpecObserved == Init /\ [][NextObserved]_vars

\* the completion handlers running concurrently for orders made from the cart
NextRace ==
    \/ \E u \in Shoppers, p \in Products : AddToCart(u, p)
    \/ \E u \in Shoppers : CreateCheckoutSession(u, TRUE)
    \/ \E n \in SessionNums : StripePay(n)
    \/ \E r \in Slots, u \in Shoppers, sid \in SessionIds : SuccessBegin(r, u, sid)
    \/ \E r \in Slots, ev \in Events : WebhookBegin(r, ev)
    \/ \E r \in Slots : ReqMark(r)
    \/ \E r \in Slots : ReqIntent(r)
    \/ \E r \in Slots : SuccessClear(r)
    \/ \E r \in Slots : SuccessLoad(r)
    \/ \E r \in Slots : SuccessSave(r)

SpecRace == Init /\ [][NextRace]_vars

\* the seller of the catalog's products
Sellers == {"bob"}

\* the cart and the checkout while the seller changes prices
NextCart ==
    \/ \E u \in Shoppers, p \in Products : AddToCart(u, p)
    \/ \E u \in Shoppers, p \in Products : RemoveFromCart(u, p)
    \/ \E u \in Shoppers : ClearCart(u)
    \/ \E u \in Sellers, p \in Products, x \in Prices :
          ProductUpdate(u, p, product[p].title, x, product[p].category)
    \/ \E u \in Shoppers, ok \in BOOLEAN : CreateCheckoutSession(u, ok)

SpecCart == Init /\ [][NextCart]_vars

\* the life of one listed product, from its creation by the seller, and the
\* orders made for it
Listed == {"p1"}

InitCatalog ==
    /\ product = [p \in Products |-> NoProduct]
    /\ category = InitCategory
    /\ InitRest

NextCatalog ==
    \/ \E u \in Sellers, p \in Listed, t \in Titles, x \in Prices : ProductCreate(u, p, t, x, "c1")
    \/ \E u \in Sellers, p \in Listed, t \in Titles, x \in Prices : ProductUpdate(u, p, t, x, product[p].category)
    \/ \E u \in Sellers, p \in Listed : ProductToggleStatus(u, p)
    \/ \E p \in Listed, st \in PRODUCT_STATUS : AdminSetStatus(p, st)
    \/ \E p \in Listed : ApproveProduct(p)
    \/ \E p \in Listed : AdminDeleteProduct(p)
    \/ \E u \in Shoppers, p \in Listed : AddToCart(u, p)
    \/ \E u \in Shoppers, ok \in BOOLEAN : CreateCheckoutSession(u, ok)
    \/ \E u \in Shoppers, p \in Listed, ok \in BOOLEAN : BuyNow(u, p, ok)

SpecCatalog == InitCatalog /\ [][NextCatalog]_vars

\* the step just taken was checkout_success: its response, the orders its query found,
\* and the orders, carts and purchase counts it started from
NoteSuccess(u, sid) ==
    seen' = [Unseen EXCEPT !.kind = "success",
                           !.resp = CheckoutSuccessResponse(u, sid, TRUE),
                           !.target = IF SuccessFinds(u, sid, TRUE)
                                      THEN OwnOrders(u, sid) ELSE {},
                           !.order = order, !.cart = cart, !.count = PurchaseCounts]

\* the step just taken was stripe_webhook for the event ev
NoteWebhook(ev) ==
    seen' = [Unseen EXCEPT !.kind = "webhook", !.ev = ev,
                           !.resp = StripeWebhookStatus(ev),
                           !.target = EventOrders(ev),
                           !.order = order, !.cart = cart, !.count = PurchaseCounts]

NotedCheckoutSuccess(u, sid) == checkout_success(u, sid, TRUE) /\ NoteSuccess(u, sid)
NotedStripeWebhook(ev) == stripe_webhook(ev) /\ NoteWebhook(ev)

\* the payment flow for one product, each notification noted together with the state
\* it found
NextNoted ==
    \/ \E u \in Shoppers, p \in Listed : AddToCart(u, p)
    \/ \E u \in Shoppers : CreateCheckoutSession(u, TRUE)
    \/ \E n \in SessionNums : StripePay(n)
    \/ \E u \in Shoppers, sid \in SessionIds : NotedCheckoutSuccess(u, sid)
    \/ \E ev \in Events : NotedStripeWebhook(ev)

SpecNoted == Init /\ [][NextNoted]_vars

\* the step just taken was the dashboard request op of user u on product p: its
\* response and the catalog it started from
NoteDashboard(op, u, p, resp) ==
    seen' = [Unseen EXCEPT !.kind = "dashboard", !.op = op, !.user = u, !.p = p,
                           !.resp = resp, !.product = product]

NotedDashboardPage(u, view) ==
    dashboard_page(u, view) /\ NoteDashboard(view, u, "p1", DashboardPageResponse(u, view))
NotedProductCreate(u, p, title, price) ==
    product_create(u, p, title, price, "c1")
    /\ NoteDashboard("product_create", u, p, ProductCreateResponse(u))
NotedProductUpdate(u, p, title, price) ==
    product_update(u, p, title, price, product[p].category)
    /\ NoteDashboard("product_update", u, p, ProductUpdateResponse(u, p))
NotedProductToggleStatus(u, p) ==
    product_toggle_status(u, p)
    /\ NoteDashboard("product_toggle_status", u, p, ProductToggleStatusResponse(u, p))
NotedProductToggleFeatured(u, p) ==
    product_toggle_featured(u, p)
    /\ NoteDashboard("product_toggle_featured", u, p, ProductToggleFeaturedResponse(u, p))

\* the seller dashboard used by a buyer, two sellers and an admin, each request noted
\* together with the catalog it found
NextDashboard ==
    \/ \E u \in Users, view \in DASHBOARD_PAGES : NotedDashboardPage(u, view)
    \/ \E u \in Users, p \in Listed, t \in Titles, x \in Prices :
          NotedProductCreate(u, p, t, x)
    \/ \E u \in Users, p \in Listed, t \in Titles, x \in Prices :
          NotedProductUpdate(u, p, t, x)
    \/ \E u \in Users, p \in Listed : NotedProductToggleStatus(u, p)
    \/ \E u \in Users, p \in Listed : NotedProductToggleFeatured(u, p)

SpecDashboard == InitCatalog /\ [][NextDashboard]_vars

\* ------------------------------------------------------------ the categories
\* catalog.admin.CategoryAdmin add form: a new category under an existing parent, or
\* at the top level
AdminCategoryCreate(c, parent) ==
    /\ ~category[c].exists
    /\ parent # NoParent => category[parent].exists
    /\ category' = [category EXCEPT ![c] =
                       [exists |-> TRUE, parent |-> parent, is_active |-> TRUE]]
    /\ UNCHANGED <<product, cart, order, orderItems, session, now, req, cleared, counted,
                   profile, auth_user>>
    /\ Unobserved

\* catalog.admin.CategoryAdmin.make_active / make_inactive on one selected category
AdminCategorySetActive(c, b) ==
    /\ category[c].exists
    /\ category' = [category EXCEPT ![c].is_active = b]
    /\ UNCHANGED <<product, cart, order, orderItems, session, now, req, cleared, counted,
                   profile, auth_user>>
    /\ Unobserved

\* the response of catalog.views.category_products
CategoryPageResponse(c) ==
    IF category[c].exists /\ category[c].is_active THEN "page" ELSE "404"

\* the products in the context of the category page:
\* Product.objects.filter(category=category, is_active=True, status='active')
CategoryPageProducts(c) ==
    {p \in Products : /\ product[p].exists
                      /\ product[p].category = c
                      /\ product[p].is_active
                      /\ product[p].status = "active"}

\* catalog.views.category_products: nothing is written
category_products(c) == UNCHANGED sysvars

\* the step just taken was the page of category c: its response and the products listed
NotedCategoryProducts(c) ==
    /\ category_products(c)
    /\ seen' = [Unseen EXCEPT !.kind = "category_page", !.c = c,
                              !.resp = CategoryPageResponse(c),
                              !.listed = IF CategoryPageResponse(c) = "page"
                                         THEN CategoryPageProducts(c) ELSE {}]

\* no product and no category yet
InitShop ==
    /\ product = [p \in Products |-> NoProduct]
    /\ category = [c \in Categories |-> NoCategory]
    /\ InitRest

\* the admin builds the category tree, the seller files a product in it and the admin
\* sets its status, and the category pages are requested
NextCategory ==
    \/ \E c \in Categories, parent \in Categories \cup {NoParent} :
          AdminCategoryCreate(c, parent)
    \/ \E c \in Categories, b \in BOOLEAN : AdminCategorySetActive(c, b)
    \/ \E u \in Sellers, p \in Listed, c \in Categories : ProductCreate(u, p, "t1", 5, c)
    \/ \E u \in Sellers, p \in Listed, c \in Categories :
          ProductUpdate(u, p, product[p].title, product[p].price, c)
    \/ \E u \in Sellers, p \in Listed : ProductToggleStatus(u, p)
    \/ \E p \in Listed, st \in PRODUCT_STATUS : AdminSetStatus(p, st)
    \/ \E c \in Categories : NotedCategoryProducts(c)

SpecCategory == InitShop /\ [][NextCategory]_vars

\* ----------------------------------------------------------- two shoppers
\* the step just taken was remove_from_cart of user u for product p: what
\* Cart.remove_product returned (404 when the product or the cart is not found), and
\* the carts it started from
NotedRemoveFromCart(u, p) ==
    /\ remove_from_cart(u, p)
    /\ seen' = [Unseen EXCEPT !.kind = "cart", !.op = "remove_product", !.user = u, !.p = p,
                              !.resp = IF ~product[p].exists \/ ~cart[u].exists THEN "404"
                                       ELSE RemoveProductReturns(cart[u], p),
                              !.cart = cart]

\* the step just taken was clear_cart of user u
NotedClearCart(u) ==
    /\ clear_cart(u)
    /\ seen' = [Unseen EXCEPT !.kind = "cart", !.op = "clear", !.user = u,
                              !.resp = IF ~cart[u].exists THEN "404" ELSE "redirect_cart",
                              !.cart = cart]

\* the users who shop side by side
TwoShoppers == {"alice", "carol"}

\* two users fill and empty their carts while the seller changes prices
NextCarts ==
    \/ \E u \in TwoShoppers, p \in Products : AddToCart(u, p)
    \/ \E u \in TwoShoppers, p \in Products : NotedRemoveFromCart(u, p)
    \/ \E u \in TwoShoppers : NotedClearCart(u)
    \/ \E u \in Sellers, p \in Products, x \in Prices :
          ProductUpdate(u, p, product[p].title, x, product[p].category)

SpecCarts == Init /\ [][NextCarts]_vars

\* two buyers order the same product with buy_now and their success callbacks run
\* concurrently, statement by statement
NextRaceTwo ==
    \/ \E u \in TwoShoppers, p \in Listed : BuyNow(u, p, TRUE)
    \/ \E n \in SessionNums : StripePay(n)
    \/ \E r \in Slots, u \in TwoShoppers, sid \in SessionIds : SuccessBegin(r, u, sid)
    \/ \E r \in Slots : ReqMark(r)
    \/ \E r \in Slots : ReqIntent(r)
    \/ \E r \in Slots : SuccessClear(r)
    \/ \E r \in Slots : SuccessLoad(r)
    \/ \E r \in Slots : SuccessSave(r)

SpecRaceTwo == Init /\ [][NextRaceTwo]_vars

\* a success callback noted with its caller and every order of the session it names
NoteSuccessBy(u, sid) ==
    seen' = [Unseen EXCEPT !.kind = "success_by", !.user = u,
                           !.resp = CheckoutSuccessResponse(u, sid, TRUE),
                           !.target = OrdersBySession(sid),
                           !.order = order, !.cart = cart, !.count = PurchaseCounts]

NotedSuccessBy(u, sid) == checkout_success(u, sid, TRUE) /\ NoteSuccessBy(u, sid)

\* two buyers check out and each may open the success page with any session id
NextOwner ==
    \/ \E u \in TwoShoppers, p \in Listed : AddToCart(u, p)
    \/ \E u \in TwoShoppers : CreateCheckoutSession(u, TRUE)
    \/ \E n \in SessionNums : StripePay(n)
    \/ \E u \in TwoShoppers, sid \in SessionIds : NotedSuccessBy(u, sid)

SpecOwner == Init /\ [][NextOwner]_vars

\* ------------------------------------------------------------ the accounts
\* accounts.views.profile_edit_view: ProfileUpdateForm saves the posted role, any of
\* ROLE_CHOICES, on the profile of the logged-in user
profile_edit_view(u, role) ==
    /\ profile' = [profile EXCEPT ![u] = role]
    /\ UNCHANGED <<product, cart, order, orderItems, session, now, req, cleared, counted,
                   category, auth_user>>

ProfileEdit(u, role) == profile_edit_view(u, role) /\ Unobserved

\* the account of a user as one request sees it: the auth_user row, the Profile rows
\* referring to it, the profile's role, and whether the request has raised
AccountOf(u) == [exists |-> auth_user[u].exists, profiles |-> auth_user[u].profiles,
                 role |-> profile[u], raised |-> FALSE]

\* Profile.objects.create(user=instance): a row with the default role; the unique
\* constraint of the OneToOneField rejects a second row with IntegrityError
ProfileCreate(a) ==
    IF a.profiles = 0 THEN [a EXCEPT !.profiles = 1, !.role = "buyer"]
    ELSE [a EXCEPT !.raised = TRUE]

\* post_save handler create_user_profile
create_user_profile(a, created) == IF created THEN ProfileCreate(a) ELSE a

\* the second handler creating a profile on every save
save_user_profileAlways(a) == IF a.raised THEN a ELSE ProfileCreate(a)

\* post_save handler save_user_profile; it is not reached when the first handler
\* raised; instance.profile.save() writes the row it has just read
save_user_profile(a) ==
    IF a.raised THEN a
    ELSE IF a.profiles = 0 THEN ProfileCreate(a) ELSE a

\* User.save() with its post_save handlers in the order they were connected
user_save(a) ==
    LET created == ~a.exists IN
    save_user_profile(create_user_profile([a EXCEPT !.exists = TRUE], created))

\* the rows of u after a request that leaves the account as a
SetAccount(u, a) ==
    /\ auth_user' = [auth_user EXCEPT ![u] = [exists |-> a.exists, profiles |-> a.profiles]]
    /\ profile' = [profile EXCEPT ![u] = a.role]
    /\ UNCHANGED <<product, cart, order, orderItems, session, now, req, cleared, counted, category>>

\* CustomUserCreationForm.save followed by login(): the user is saved, the chosen role
\* is written on user.profile, and update_last_login saves the user again
RegisterAccount(u, role) ==
    LET a == user_save(AccountOf(u)) IN
    IF a.raised THEN a ELSE user_save([a EXCEPT !.role = role])

register_view(u, role) ==
    /\ ~auth_user[u].exists
    /\ SetAccount(u, RegisterAccount(u, role))

\* login_view: login() sends user_logged_in, whose receiver update_last_login saves
\* the user
login_view(u) ==
    /\ auth_user[u].exists
    /\ SetAccount(u, user_save(AccountOf(u)))

\* ProfileAdmin delete view: the Profile row of the user is deleted
AdminProfileDelete(u) ==
    /\ auth_user[u].exists /\ auth_user[u].profiles = 1
    /\ SetAccount(u, [AccountOf(u) EXCEPT !.profiles = 0, !.role = "buyer"])
    /\ Unobserved

AccountResponse(a) == IF a.raised THEN "IntegrityError" ELSE "saved"

NoteAccount(op, u, a) ==
    seen' = [Unseen EXCEPT !.kind = "account", !.op = op, !.user = u,
                           !.resp = AccountResponse(a), !.before = AccountOf(u)]

NotedRegister(u, role) ==
    register_view(u, role) /\ NoteAccount("register_view", u, RegisterAccount(u, role))
NotedLogin(u) ==
    login_view(u) /\ NoteAccount("login_view", u, user_save(AccountOf(u)))

\* only the administrator has an account
InitAccounts ==
    /\ product = [p \in Products |-> NoProduct]
    /\ category = InitCategory
    /\ cart = [u \in Users |-> NoCart]
    /\ order = [o \in OrderIds |-> NoOrder]
    /\ orderItems = {}
    /\ session = [n \in SessionNums |-> "absent"]
    /\ now = 1
    /\ req = [r \in Slots |-> IdleReq]
    /\ cleared = [o \in OrderIds |-> 0]
    /\ counted = [o \in OrderIds |-> [p \in Products |-> 0]]
    /\ seen = Unseen
    /\ profile = [u \in Users |-> IF u = "dave" THEN "admin" ELSE "buyer"]
    /\ auth_user = [u \in Users |-> IF u = "dave" THEN [exists |-> TRUE, profiles |-> 1]
                                   ELSE [exists |-> FALSE, profiles |-> 0]]

\* users register, log in and edit their profile; the administrator deletes profiles
NextAccounts ==
    \/ \E u \in Users, role \in ROLES : NotedRegister(u, role)
    \/ \E u \in Users : NotedLogin(u)
    \/ \E u \in Users, role \in ROLES :
          auth_user[u].exists /\ auth_user[u].profiles = 1 /\ ProfileEdit(u, role)
    \/ \E u \in Users : AdminProfileDelete(u)

SpecAccounts == InitAccounts /\ [][NextAccounts]_vars

\* the users whose role after registration is 'buyer'
RegisteredBuyers == {u \in Users : InitProfile[u] = "buyer"}

\* a registered buyer and a seller edit their profiles and use the dashboard
NextRoles ==
    \/ \E u \in {"alice", "bob"}, role \in ROLES : ProfileEdit(u, role)
    \/ \E u \in {"alice", "bob"}, p \in Listed, t \in Titles, x \in Prices :
          NotedProductCreate(u, p, t, x)
    \/ \E u \in {"alice", "bob"}, p \in Listed, t \in Titles, x \in Prices :
          NotedProductUpdate(u, p, t, x)
    \/ \E u \in {"alice", "bob"}, p \in Listed : NotedProductToggleStatus(u, p)
    \/ \E u \in {"alice", "bob"}, p \in Listed : NotedProductToggleFeatured(u, p)

SpecRoles == InitCatalog /\ [][NextRoles]_vars

\* ------------------------------------------------------------ publication
\* sellers create products and switch them on and off; the administrator sets the
\* status on the change form and runs the bulk actions
NextPublish ==
    \/ \E u \in Sellers, p \in Products : ProductCreate(u, p, "t1", 5, "c1")
    \/ \E u \in Sellers, p \in Products : ProductToggleStatus(u, p)
    \/ \E p \in Products, st \in PRODUCT_STATUS : AdminSetStatus(p, st)
    \/ \E p \in Products : ApproveProduct(p)
    \/ \E p \in Products : AdminMakeActive(p)

SpecPublish == InitCatalog /\ [][NextPublish]_vars

\* ------------------------------------------------------------ the category tree
\* catalog.admin.CategoryAdmin change form: the parent field offers every category
\* but the one being edited (formfield_for_foreignkey), and no parent
AdminCategorySetParent(c, parent) ==
    /\ category[c].exists
    /\ parent # c
    /\ parent # NoParent => category[parent].exists
    /\ category' = [category EXCEPT ![c].parent = parent]
    /\ UNCHANGED <<product, cart, order, orderItems, session, now, req, cleared, counted,
                   profile, auth_user>>
    /\ Unobserved

\* the administrator creates categories and edits their parent
NextTree ==
    \/ \E c \in Categories, parent \in Categories \cup {NoParent} :
          AdminCategoryCreate(c, parent)
    \/ \E c \in Categories, b \in BOOLEAN : AdminCategorySetActive(c, b)
    \/ \E c \in Categories, parent \in Categories \cup {NoParent} :
          AdminCategorySetParent(c, parent)

SpecTree == InitShop /\ [][NextTree]_vars

\* ================================================================== claims

\* a success notification for order o is handled in this step, by either entry point
SuccessReported(o) ==
    \/ \E u \in Users, sid \in SessionIds :
          /\ checkout_success(u, sid, TRUE)
          /\ SuccessFinds(u, sid, TRUE)
          /\ session[sid[2]] = "paid"
          /\ o \in OwnOrders(u, sid)
    \/ \E ev \in Events :
          /\ stripe_webhook(ev)
          /\ ev.valid /\ ev.type = COMPLETED
          /\ o \in EventOrders(ev)

\* C1: once success has been reported twice or more for an order made from the cart,
\* by any of the two entry points in any order, the cart has been cleared exactly once
\* for the order and each of its products counted exactly once.
C1_ExactlyOnceOnRedelivery ==
    \A o \in OrderIds :
        (order[o].exists /\ order[o].origin = "cart" /\ seen.success[o] >= 2)
        => /\ cleared[o] = 1
           /\ \A p \in ProductsOf(o) : counted[o][p] = 1

\* C2: of a success callback and a webhook in flight for the same order, at most one
\* has written the order; the other writes nothing.
C2_SingleWriter ==
    \A r1, r2 \in Slots :
        (req[r1].kind = "success" /\ req[r2].kind = "webhook" /\ req[r1].o = req[r2].o)
        => ~(req[r1].wrote /\ req[r2].wrote)

\* C3: for every order the cart clear and each product's increment run at most once,
\* however the success callbacks for it interleave.
C3_SideEffectsAtMostOnce ==
    \A o \in OrderIds :
        /\ cleared[o] <= 1
        /\ \A p \in Products : counted[o][p] <= 1

\* C4: an order in a terminal status keeps that status in every later state.
C4_TerminalIsFinal ==
    [][\A o \in OrderIds :
          (order[o].exists /\ order[o].status \in TERMINAL_STATUS)
          => order'[o].status = order[o].status]_vars

\* C5: a success notification for a pending order, by either entry point alone, leaves
\* the order completed with completed_at set, the originating cart empty and every
\* ordered product's purchase_count one higher.
C5_EitherEntryPointCompletes ==
    [][\A o \in OrderIds :
          (order[o].exists /\ order[o].status = "pending" /\ SuccessReported(o))
          => /\ order'[o].status = "completed"
             /\ order'[o].completed_at # NULL
             /\ order[o].origin = "cart" => is_empty(cart'[order[o].user])
             /\ \A p \in ProductsOf(o) :
                   product'[p].purchase_count = product[p].purchase_count + 1]_vars

\* C6: right after a payment failure is reported for a pending order the order is
\* failed, and the carts and the purchase counters are as before the report.
C6_FailureMarksPendingFailed ==
    \A o \in seen.failure :
        /\ order[o].status = "failed"
        /\ cart = seen.cart
        /\ \A p \in Products : product[p].purchase_count = seen.count[p]

\* C7: a checkout request whose Session.create call raises answers with a failure and
\* leaves the Order and OrderItem tables as they were.
C7_FailedSessionLeavesNoOrder ==
    [][\A u \in Users :
          /\ (CreateCheckoutSession(u, FALSE) /\ cart[u].exists /\ ~is_empty(cart[u]))
             => /\ CreateCheckoutSessionStatus(u, FALSE) = 500
                /\ order' = order /\ orderItems' = orderItems
          /\ \A p \in Products :
                (BuyNow(u, p, FALSE) /\ Purchasable(p))
                => /\ BuyNowResponse(u, p, FALSE) = "redirect_product_error"
                   /\ order' = order /\ orderItems' = orderItems]_vars

\* C8: a successful create_checkout_session on a non-empty cart creates one pending
\* order with one item per cart line at the line's captured price, a total equal to
\* the sum of the item prices and the id of the session just opened; on an empty cart
\* it answers 400 and creates nothing.
C8_CheckoutSnapshotsCart ==
    [][\A u \in Users :
          /\ (CreateCheckoutSession(u, TRUE) /\ cart[u].exists /\ ~is_empty(cart[u]))
             => LET o == NewOrderId
                    items == ItemsIn(orderItems', o) IN
                /\ CreateCheckoutSessionStatus(u, TRUE) = 200
                /\ ItemsOf(o) = {}
                /\ \A x \in OrderIds \ {o} : order'[x] = order[x] /\ ItemsIn(orderItems', x) = ItemsOf(x)
                /\ {[product |-> i.product, price |-> i.price] : i \in items} = cart[u].items
                /\ Cardinality(items) = Cardinality(cart[u].items)
                /\ order'[o].exists /\ order'[o].user = u
                /\ order'[o].total_amount = SumPrices(items)
                /\ order'[o].status = "pending"
                /\ session[NewSession] = "absent" /\ session'[NewSession] = "unpaid"
                /\ order'[o].stripe_session_id = SessionId(NewSession)
          /\ \A ok \in BOOLEAN :
                (CreateCheckoutSession(u, ok) /\ cart[u].exists /\ is_empty(cart[u]))
                => /\ CreateCheckoutSessionStatus(u, ok) = 400
                   /\ order' = order /\ orderItems' = orderItems]_vars

\* an order of two lines with a session, one line captured at a price the product no
\* longer has
C8_Witness ==
    \E o \in OrderIds :
        /\ order[o].exists /\ order[o].origin = "cart"
        /\ order[o].stripe_session_id # NULL
        /\ Cardinality(ItemsOf(o)) = 2
        /\ order[o].total_amount = 15
        /\ \E i \in ItemsOf(o) : i.price # product[i.product].price

\* C9: the items of an existing order, with their title, slug and price, are the same
\* in every later state.
C9_SnapshotFrozen ==
    [][\A o \in OrderIds :
          order[o].exists => ItemsIn(orderItems', o) = ItemsOf(o)]_vars

\* C10: add_to_cart and buy_now for a product that is not active with is_active set
\* create no CartItem, Order or OrderItem.
C10_OnlyPublishedPurchasable ==
    [][\A u \in Users, p \in Products :
          (~(product[p].exists /\ is_published(p))
             /\ (AddToCart(u, p) \/ \E ok \in BOOLEAN : BuyNow(u, p, ok)))
          => /\ cart' = cart
             /\ order' = order
             /\ orderItems' = orderItems]_vars

\* the price on the line of product p in cart c, 0 when there is none
LinePrice(c, p) ==
    LET lines == {i \in c.items : i.product = p} IN
    IF lines = {} THEN 0 ELSE (CHOOSE i \in lines : TRUE).price

RECURSIVE CapturedSum(_, _)
CapturedSum(c, P) ==
    IF P = {} THEN 0
    ELSE LET p == CHOOSE x \in P : TRUE IN LinePrice(c, p) + CapturedSum(c, P \ {p})

\* C11: after every step a cart holds at most one line per product, and add_to_cart
\* for a product already in the cart leaves the cart's lines, prices included, as
\* they were.
C11_AddIsIdempotent ==
    [][\A u \in Users :
          /\ \A i, j \in cart'[u].items : i.product = j.product => i = j
          /\ \A p \in Products :
                (AddToCart(u, p) /\ p \in CartProducts(cart[u])) => cart' = cart]_vars

\* a cart whose only line was captured at a price the product no longer has, so that
\* adding the product again would show
C11_Witness ==
    \E u \in Users :
        /\ Cardinality(cart[u].items) = 1
        /\ \E i \in cart[u].items : i.price # product[i.product].price

\* C12: after every step a cart's total_price is the sum of the prices on its lines;
\* a line that was in the cart keeps its price, a new line has the product's price of
\* the moment it was added, and a step that changes a product changes no cart and no
\* cart total.
C12_TotalIsCapturedSum ==
    [][\A u \in Users :
          /\ total_price(cart[u])' = CapturedSum(cart'[u], Products)
          /\ \A i \in cart'[u].items :
                IF i.product \in CartProducts(cart[u])
                THEN i \in cart[u].items
                ELSE i.price = product[i.product].price
          /\ product' # product
             => /\ cart' = cart
                /\ total_price(cart[u])' = total_price(cart[u])]_vars

\* a cart of two lines, one of them captured at a price the product no longer has
C12_Witness ==
    \E u \in Users :
        /\ Cardinality(cart[u].items) = 2
        /\ total_price(cart[u]) = 15
        /\ \E i \in cart[u].items : i.price # product[i.product].price

\* the order, cart and counter state is as it was before the step just taken
SameAsBefore ==
    /\ order = seen.order
    /\ cart = seen.cart
    /\ PurchaseCounts = seen.count

\* C13: right after a webhook request that does not verify, the response was 400 and
\* every order (status, completed_at, payment identifiers), every cart and every
\* purchase counter is as before the request.
C13_UnverifiedWebhookRejected ==
    (seen.kind = "webhook" /\ ~seen.ev.valid)
    => /\ seen.resp = 400
       /\ SameAsBefore

\* an unverified checkout.session.completed for a paid session whose order is pending
C13_Witness ==
    /\ seen.kind = "webhook" /\ ~seen.ev.valid /\ seen.ev.type = COMPLETED
    /\ session[seen.ev.id[2]] = "paid"
    /\ \E o \in seen.target : seen.order[o].status = "pending"

\* C14: right after a verified webhook event whose session or payment intent id
\* matched no order, the response was 200 and the orders, carts and purchase counters
\* are as before the event.
C14_UnknownOrderDropped ==
    (seen.kind = "webhook" /\ seen.ev.valid /\ seen.target = {})
    => /\ seen.resp = 200
       /\ SameAsBefore

\* a verified checkout.session.completed for a session no order has, with orders in
\* the table
C14_Witness ==
    /\ seen.kind = "webhook" /\ seen.ev.valid /\ seen.ev.type = COMPLETED
    /\ seen.target = {}
    /\ \E o \in OrderIds : order[o].exists /\ order[o].status = "pending"

\* C15: right after a success confirmation, by the success callback or by a verified
\* checkout.session.completed event, for an order that was already completed, the
\* response was the success page, respectively 200, and the orders, carts and purchase
\* counters are as before the confirmation.
C15_RepeatConfirmationIsNoOp ==
    (/\ \/ seen.kind = "success"
        \/ seen.kind = "webhook" /\ seen.ev.valid /\ seen.ev.type = COMPLETED
     /\ \E o \in seen.target : seen.order[o].status = "completed")
    => /\ seen.resp = IF seen.kind = "success" THEN "success_page" ELSE 200
       /\ SameAsBefore

\* the success callback for a completed order while the user's cart has a line again
C15_Witness ==
    /\ seen.kind = "success"
    /\ \E o \in seen.target :
          /\ seen.order[o].status = "completed"
          /\ ~is_empty(cart[order[o].user])

REDIRECT_WITH_MESSAGE == {"redirect_home_message"}

\* C17: right after a seller who is not an admin has asked to edit or to toggle a
\* product of another seller, the response was a redirect with a message and the
\* catalog is as before the request.
C17_ForeignProductRedirects ==
    (/\ seen.kind = "dashboard"
     /\ seen.op \in {"product_update", "product_toggle_status"}
     /\ profile[seen.user] = "seller"
     /\ seen.product[seen.p].exists
     /\ seen.product[seen.p].seller # seen.user)
    => /\ seen.resp \in REDIRECT_WITH_MESSAGE
       /\ product = seen.product

\* the ways the dashboard turns a request down: a redirect with a message, or a JSON
\* body with success false and an error
DENIALS == {"redirect_home_message", "json_permission_denied", "json_admin_required"}

\* C18: right after any dashboard request of a user whose role is buyer, the response
\* was a denial and the catalog, the set of products and every field, is as before
\* the request.
C18_BuyerChangesNoProduct ==
    (seen.kind = "dashboard" /\ profile[seen.user] = "buyer")
    => /\ seen.resp \in DENIALS
       /\ product = seen.product

\* a buyer has asked to toggle an existing product
C18_Witness ==
    /\ seen.kind = "dashboard" /\ profile[seen.user] = "buyer"
    /\ seen.op = "product_toggle_status"
    /\ seen.product[seen.p].exists

\* C19: right after the page of a category has been served, the products it listed
\* are exactly the products that are active with is_active set and filed in the
\* category or in one of its descendants.
C19_CategoryPageListsClosure ==
    (seen.kind = "category_page" /\ seen.resp = "page")
    => seen.listed = {p \in Products :
                         /\ product[p].exists /\ is_published(p)
                         /\ product[p].category \in {seen.c} \cup get_descendants(seen.c)}

\* the user has a completed order with the product among its items
Owns(u, p) ==
    \E o \in OrderIds :
        /\ order[o].exists /\ order[o].user = u /\ order[o].status = "completed"
        /\ p \in ProductsOf(o)

\* C20: add_to_cart for a product the user already owns answers with an error and
\* leaves the cart as it was.
C20_OwnedProductNotAddedAgain ==
    [][\A u \in Users, p \in Products :
          (AddToCart(u, p) /\ Owns(u, p))
          => /\ cart' = cart
             /\ AddToCartResponse(u, p) = "redirect_product_error"]_vars

\* C21: right after Cart.remove_product ran for a product in the cart it returned True
\* and the cart holds the lines it held except the product's, prices included; for a
\* product not in the cart it returned False and the cart is as it was; right after
\* Cart.clear the cart has no line, is_empty holds and total_price is 0; in each case
\* every other user's cart is as it was.
C21_RemoveAndClearFrame ==
    (seen.kind = "cart" /\ seen.resp # "404")
    => LET u == seen.user
           before == seen.cart[u] IN
       /\ \A v \in Users \ {u} : cart[v] = seen.cart[v]
       /\ seen.op = "remove_product"
          => IF seen.p \in CartProducts(before)
             THEN /\ seen.resp = "True"
                  /\ seen.p \notin CartProducts(cart[u])
                  /\ \A i \in before.items : i.product # seen.p => i \in cart[u].items
                  /\ cart[u].items \subseteq before.items
             ELSE /\ seen.resp = "False"
                  /\ cart[u] = before
       /\ seen.op = "clear"
          => /\ cart[u].items = {}
             /\ is_empty(cart[u])
             /\ total_price(cart[u]) = 0

\* a product was removed from a cart that keeps a line captured at an older price,
\* while the other shopper's cart has lines
C21_Witness ==
    /\ seen.kind = "cart" /\ seen.op = "remove_product" /\ seen.resp = "True"
    /\ \E i \in cart[seen.user].items : i.price # product[i.product].price
    /\ \E v \in Users \ {seen.user} : ~is_empty(cart[v])

\* C22: in a step that completes an order, every line that leaves the buyer's cart is
\* a line for a product among the items of that order.
C22_ClearsOnlyOrderedProducts ==
    [][\A o \in OrderIds :
          (order[o].exists /\ order[o].status = "pending" /\ order'[o].status = "completed")
          => \A i \in cart[order[o].user].items :
                i \notin cart'[order[o].user].items => i.product \in ProductsOf(o)]_vars

\* the orders on whose behalf the product's counter was incremented
CountedOrders(p) == {o \in OrderIds : counted[o][p] > 0}

\* C23: when no success callback is in flight, the orders belong to different users
\* and every order was counted by at most one callback, each product's
\* purchase_count has risen by the number of orders counted for it.
C23_NoLostIncrement ==
    ((\A r \in Slots : req[r].kind = "idle")
        /\ \A o \in OrderIds, p \in Products : counted[o][p] <= 1
        /\ \A o1, o2 \in OrderIds :
              (o1 # o2 /\ order[o1].exists /\ order[o2].exists)
              => order[o1].user # order[o2].user)
    => \A p \in Products : product[p].purchase_count = Cardinality(CountedOrders(p))

\* C24: a pending order has a null stripe_payment_intent_id, so no
\* payment_intent.payment_failed event finds a pending order.
C24_PendingHasNoIntent ==
    \A o \in OrderIds :
        (order[o].exists /\ order[o].status = "pending")
        => /\ order[o].stripe_payment_intent_id = NULL
           /\ \A ev \in Events : ev.type = PAYMENT_FAILED => o \notin EventOrders(ev)

\* a payment_failed event has found an order while another order is pending
C24_Witness ==
    /\ seen.kind = "webhook"
    /\ seen.ev.type = PAYMENT_FAILED
    /\ seen.ev.valid
    /\ seen.target # {}
    /\ \E o \in OrderIds : order[o].exists /\ order[o].status = "pending"

\* C25: completed_at is set exactly on completed orders, and a step never replaces a
\* completed_at that is already set.
C25_CompletedAtIffCompleted ==
    \A o \in OrderIds :
        order[o].exists => (order[o].completed_at # NULL <=> order[o].status = "completed")

\* C25, second half: once set, completed_at keeps its value.
C25_CompletedAtKept ==
    [][\A o \in OrderIds :
          (order[o].exists /\ order[o].completed_at # NULL)
          => order'[o].completed_at = order[o].completed_at]_vars

\* C26: checkout_success called by a user with the session id of another user's order
\* leaves every order, every cart and every purchase counter as it was.
C26_ForeignSessionChangesNothing ==
    (/\ seen.kind = "success_by"
     /\ seen.target # {}
     /\ \A o \in seen.target : seen.order[o].user # seen.user)
    => /\ seen.resp = "redirect_cart"
       /\ SameAsBefore

\* the foreign order was paid and still pending, and both users had a cart line
C26_Witness ==
    /\ seen.kind = "success_by"
    /\ \E o \in seen.target :
          /\ seen.order[o].user # seen.user
          /\ seen.order[o].status = "pending"
          /\ session[seen.order[o].stripe_session_id[2]] = "paid"
          /\ ~is_empty(cart[seen.order[o].user])
    /\ ~is_empty(cart[seen.user])

\* C27: a request of a user who registered as buyer changes no product of another
\* seller and no product's featured flag.
C27_RegisteredBuyerStaysBuyer ==
    (seen.kind = "dashboard" /\ seen.user \in RegisteredBuyers)
    => \A p \in Products :
          /\ (seen.product[p].exists /\ seen.product[p].seller # seen.user)
             => product[p] = seen.product[p]
          /\ product[p].is_featured = seen.product[p].is_featured

\* C28: right after a request that saved a user, exactly one Profile refers to the
\* user and no handler raised; when the user had a profile before a save at login,
\* the profile's role is the one it had.
C28_ExactlyOneProfile ==
    seen.kind = "account"
    => LET u == seen.user IN
       /\ auth_user[u].exists
       /\ auth_user[u].profiles = 1
       /\ seen.resp = "saved"
       /\ (seen.op = "login_view" /\ seen.before.profiles = 1)
          => profile[u] = seen.before.role

\* an existing seller or admin with a profile has logged in
C28_Witness ==
    /\ seen.kind = "account" /\ seen.op = "login_view"
    /\ seen.before.exists /\ seen.before.profiles = 1
    /\ seen.before.role # "buyer"
    /\ \E v \in Users : auth_user[v].exists /\ auth_user[v].profiles = 0

\* C29: a product whose status is 'active' has published_at set.
C29_ActiveIsPublished ==
    \A p \in Products :
        (product[p].exists /\ product[p].status = "active") => product[p].published_at # NULL

\* C29, second half: a published_at that is set keeps its value.
C29_PublishedAtKept ==
    [][\A p \in Products :
          (product[p].exists /\ product[p].published_at # NULL)
          => product'[p].published_at = product[p].published_at]_vars

\* the parents of the categories in S
ParentsOf(S) == {category[k].parent : k \in S} \ {NoParent}

\* the categories reached from c by following parent at most n + 1 times
RECURSIVE AncestorsWithin(_, _)
AncestorsWithin(c, n) ==
    IF n = 0 THEN ParentsOf({c})
    ELSE AncestorsWithin(c, n - 1) \cup ParentsOf(AncestorsWithin(c, n - 1))

\* C30: the parent relation is acyclic: following parent from a category never
\* leads back to it.
C30_ParentAcyclic ==
    \A c \in Categories :
        category[c].exists => c \notin AncestorsWithin(c, Cardinality(Categories))
====
